---- MODULE Spec2Model ----
(***************************************************************************)
(* Presence registry, per-call socket routing, call state machine and      *)
(* signalling relay of the chat gateway (ChatGateway, CallService,         *)
(* WebRTCService).                                                         *)
(*                                                                         *)
(* Every handler is an async function.  The code between two awaits runs   *)
(* without interruption on the event loop, so it is one action; a          *)
(* persistence call (prisma) is issued by the action before the await,     *)
(* takes effect in a step of its own (the ...Db actions) and resumes the   *)
(* handler in a later step (the ...Cont actions).  In-memory state         *)
(* (clients, callSocketMap, ringTimeouts) is only touched by the           *)
(* synchronous parts, the call records only by the Db steps.               *)
(***************************************************************************)
EXTENDS Integers, Sequences, FiniteSets, Bags, TLC

(* ------------------------------ bounds -------------------------------- *)
\* connections that may ever be opened (socket ids 1..NumSockets)
NumSockets == 3
\* handlers (call actions and relays) that may be in flight at once
MaxTasks == 2
\* calls that may ever be created
MaxCalls == 1
\* requests in a run that get past the handler's identity check
MaxOps == 3
\* the same, in the runs where a third connection opens
MaxOpsSerial == 2
\* connections that close in a run
MaxCloses == 1
\* subscribe calls not yet matched by an unsubscribe, in the runs that call the
\* presence registry directly
MaxSubs == 3

(* ------------------------------ values -------------------------------- *)
None == "none"
Ghost == "ghost"
\* no socket id: an absent payload.to / excludeSocketId, a null target
NoSocket == 0

\* a: admin, b: ordinary user, x: a user outside conversation v1
Users == {"a", "b", "x"}
SocketIds == 1..NumSockets
CallIds == 1..MaxCalls
\* a call id that no record has (any string a client may send)
GhostCall == 0

\* rows of privateConversation with their participants; "v0" has no row
Conversations ==
  [ v1 |-> << [userId |-> "a", type |-> "ADMIN_GROUP"],
              [userId |-> "b", type |-> "USER"] >>,
    v2 |-> << [userId |-> "a", type |-> "ADMIN_GROUP"] >>,
    v3 |-> << [userId |-> "a", type |-> "ADMIN_GROUP"],
              [userId |-> "b", type |-> "USER"],
              [userId |-> "x", type |-> "USER"] >> ]
ConversationIds == {"v0", "v1", "v2", "v3"}

RelayOps == {"offer", "answer", "candidate"}

VARIABLES
  sockets,        \* connection id -> [st, tok]: transport state and token subject
  clients,        \* ChatGateway.clients: userId -> connections, in insertion order
  calls,          \* privateCall rows with their participants
  callSocketMap,  \* CallService.callSocketMap: callId -> (userId -> socket id)
  ringTimeouts,   \* CallService.ringTimeouts: the call ids that hold a timer handle
  armed,          \* timers scheduled on the event loop, neither fired nor cleared
  cb,             \* callId -> position of the ring-timeout callback
  tasks,          \* handlers in flight
  emitted,        \* events emitted by the last step, in order
  returned,       \* response returned to the caller by the last step
  quota,          \* requests the run may still make past the identity check
  ledger          \* bookkeeping of the direct calls to the presence registry

vars == << sockets, clients, calls, callSocketMap, ringTimeouts, armed, cb,
           tasks, emitted, returned, quota, ledger >>

(* ------------------------------ helpers ------------------------------- *)
\* Array.prototype.find over a sequence, given the test's outcome for each
\* element: the first index that passes, 0 when none does
FindIdx(hits) ==
  IF \E i \in 1..Len(hits) : hits[i]
  THEN CHOOSE i \in 1..Len(hits) : hits[i] /\ \A j \in 1..(i-1) : ~hits[j]
  ELSE 0

Range(seq) == { seq[i] : i \in 1..Len(seq) }

\* Map.delete / Map.set on a function with a finite domain
MapDelete(m, k) == [ j \in DOMAIN m \ {k} |-> m[j] ]
MapSet(m, k, v) == [ j \in DOMAIN m \cup {k} |-> IF j = k THEN v ELSE m[j] ]

NoMap == [ j \in {} |-> None ]

Ev(to, ev, call, from, msg) ==
  [to |-> to, ev |-> ev, call |-> call, from |-> from, msg |-> msg]

Resp(sock, op, ok, msg) == [sock |-> sock, op |-> op, ok |-> ok, msg |-> msg]

NoResp == Resp(NoSocket, None, FALSE, None)

\* What a handler keeps of the row it read: the status (acceptCall alone
\* reads it) and the participants' user ids in row order.  NoSnap is a
\* findUnique that found no row.
NoSnap == [status |-> None, userIds |-> << >>]

NoTask == [op |-> None, sock |-> NoSocket, user |-> None, arg |-> None,
           call |-> GhostCall, pc |-> None, snap |-> NoSnap, idx |-> 0]

\* client.data.userId: set by handleConnection once the user lookup resolved
UserIdOf(s) ==
  IF sockets[s].st \in {"open", "gone"} THEN sockets[s].tok ELSE None

\* a connection that can deliver a message to the gateway
Connected(s) == sockets[s].st \in {"pending", "open"}

(* -------------------------- presence registry ------------------------- *)
isOnline(userId) == userId \in DOMAIN clients

\* a subscribe that appends without looking for the connection
subscribeClient_Push(cl, userId, s) ==
  LET base == IF userId \in DOMAIN cl THEN cl ELSE MapSet(cl, userId, << >>)
  IN  [base EXCEPT ![userId] = Append(@, s)]

\* an unsubscribe that keeps the entry of a user whose last connection left
unsubscribeClient_KeepEmpty(cl, userId, s) ==
  IF userId \notin DOMAIN cl
  THEN cl
  ELSE [cl EXCEPT ![userId] = SelectSeq(@, LAMBDA c : c # s)]

subscribeClient(cl, userId, s) ==
  LET base == IF userId \in DOMAIN cl THEN cl ELSE MapSet(cl, userId, << >>)
  IN  IF s \in Range(base[userId])
      THEN base
      ELSE [base EXCEPT ![userId] = Append(@, s)]

unsubscribeClient(cl, userId, s) ==
  IF userId \notin DOMAIN cl
  THEN cl
  ELSE LET rest == SelectSeq(cl[userId], LAMBDA c : c # s)
       IN  IF Len(rest) = 0 THEN MapDelete(cl, userId)
           ELSE [cl EXCEPT ![userId] = rest]

\* a listing that ignores the excluded connection
getActiveSocketIdsForUser_NoExclude(userId, excludeSocketId) ==
  IF userId \notin DOMAIN clients THEN << >> ELSE clients[userId]

getActiveSocketIdsForUser(userId, excludeSocketId) ==
  IF userId \notin DOMAIN clients
  THEN << >>
  ELSE SelectSeq(clients[userId], LAMBDA c : c # excludeSocketId)

emitError(s, message) == Ev(s, "error", GhostCall, None, message)

(* ------------------------------- router ------------------------------- *)
ensureCallSocketEntry(m, callId) ==
  IF callId \in DOMAIN m THEN m ELSE MapSet(m, callId, NoMap)

\* ensureCallSocketEntry(callId).set(userId, socketId)
recordRoute(m, callId, userId, s) ==
  LET e == ensureCallSocketEntry(m, callId)
  IN  [e EXCEPT ![callId] = MapSet(@, userId, s)]

\* a router that prefers the recorded socket to the explicit hint
findTargetIn_RecordedFirst(m, callId, recipientUserId, payloadTo, excludeSocketId) ==
  LET active == getActiveSocketIdsForUser(recipientUserId, excludeSocketId)
      hasRec == /\ callId \in DOMAIN m
                /\ recipientUserId \in DOMAIN m[callId]
  IN  IF hasRec /\ m[callId][recipientUserId] # excludeSocketId
      THEN m[callId][recipientUserId]
      ELSE IF payloadTo # NoSocket /\ payloadTo \in Range(active)
      THEN payloadTo
      ELSE IF Len(active) > 0
      THEN active[1]
      ELSE NoSocket

\* a router that returns the recorded socket without comparing it with the
\* excluded one
findTargetIn_RecordedUnchecked(m, callId, recipientUserId, payloadTo, excludeSocketId) ==
  LET active == getActiveSocketIdsForUser(recipientUserId, excludeSocketId)
      hasRec == /\ callId \in DOMAIN m
                /\ recipientUserId \in DOMAIN m[callId]
  IN  IF payloadTo # NoSocket /\ payloadTo \in Range(active)
      THEN payloadTo
      ELSE IF hasRec
      THEN m[callId][recipientUserId]
      ELSE IF Len(active) > 0
      THEN active[1]
      ELSE NoSocket

\* a router that ignores the recorded socket
findTargetIn_NoRecorded(m, callId, recipientUserId, payloadTo, excludeSocketId) ==
  LET active == getActiveSocketIdsForUser(recipientUserId, excludeSocketId)
  IN  IF payloadTo # NoSocket /\ payloadTo \in Range(active)
      THEN payloadTo
      ELSE IF Len(active) > 0
      THEN active[1]
      ELSE NoSocket

\* resolution against a given socket map (the caller may have changed the
\* map earlier in the same synchronous block)
findTargetIn(m, callId, recipientUserId, payloadTo, excludeSocketId) ==
  LET active == getActiveSocketIdsForUser(recipientUserId, excludeSocketId)
      hasRec == /\ callId \in DOMAIN m
                /\ recipientUserId \in DOMAIN m[callId]
  IN  IF payloadTo # NoSocket /\ payloadTo \in Range(active)
      THEN payloadTo
      ELSE IF hasRec /\ m[callId][recipientUserId] # excludeSocketId
      THEN m[callId][recipientUserId]
      ELSE IF Len(active) > 0
      THEN active[1]
      ELSE NoSocket

findTargetSocketForRecipient(callId, recipientUserId, payloadTo, excludeSocketId) ==
  findTargetIn(callSocketMap, callId, recipientUserId, payloadTo, excludeSocketId)

(* ------------------------------ timers -------------------------------- *)
\* a clear that drops the entry and leaves the timer scheduled
clearRingTimeout_KeepTimer(rt, ar, callId) ==
  IF callId \in rt THEN << rt \ {callId}, ar >> ELSE << rt, ar >>

\* clearRingTimeout: clearTimeout on the stored handle, then drop the entry.
\* Yields the pair << ringTimeouts', armed' >>.
clearRingTimeout(rt, ar, callId) ==
  IF callId \in rt THEN << rt \ {callId}, ar \ {callId} >> ELSE << rt, ar >>

setRingTimeout(rt, ar, callId) ==
  LET c == clearRingTimeout(rt, ar, callId)
  IN  << c[1] \cup {callId}, c[2] \cup {callId} >>

(* ------------------------------ ledger -------------------------------- *)
\* What a run that calls subscribeClient and unsubscribeClient directly keeps
\* of its calls: count is the multiset of << userId, socket >> pairs
\* subscribed minus those unsubscribed, last the pairs whose latest call was a
\* subscribe.
NoLedger == [count |-> EmptyBag, last |-> {}]

(* ------------------------------- Init --------------------------------- *)
\* No call, no timer, no handler in flight, nothing recorded.  The domain of
\* tasks is the number of handlers the run lets be in flight at once (no
\* action changes it), requests the number of requests it lets in.
Idle(slots, requests) ==
  /\ calls = NoMap
  /\ callSocketMap = NoMap
  /\ ringTimeouts = {}
  /\ armed = {}
  /\ cb = [c \in CallIds |-> "idle"]
  /\ tasks = [t \in slots |-> NoTask]
  /\ emitted = << >>
  /\ returned = NoResp
  /\ quota = requests
  /\ ledger = NoLedger

\* the gateway after construction: no connection yet
Init ==
  /\ sockets = [s \in SocketIds |-> [st |-> "idle", tok |-> None]]
  /\ clients = NoMap
  /\ Idle(1..MaxTasks, MaxOps)

\* The admin and the user each hold one authenticated connection (a state
\* SpecConn reaches).  No call exists before the admin is connected, so the
\* call scenarios start here.
Online(slots, requests) ==
  /\ sockets = [s \in SocketIds |->
                  IF s = 1 THEN [st |-> "open", tok |-> "a"]
                  ELSE IF s = 2 THEN [st |-> "open", tok |-> "b"]
                  ELSE [st |-> "idle", tok |-> None]]
  /\ clients = [u \in {"a", "b"} |-> IF u = "a" THEN << 1 >> ELSE << 2 >>]
  /\ Idle(slots, requests)

InitConcurrent == Online(1..MaxTasks, MaxOps)

InitSerial == Online({1}, MaxOpsSerial)

InitSequential == Online({1}, MaxOps)

\* a on one connection and b on two, b's registered in the order they came
TwoDevices(slots, requests) ==
  /\ sockets = [s \in SocketIds |->
                  IF s = 1 THEN [st |-> "open", tok |-> "a"]
                  ELSE IF s \in {2, 3} THEN [st |-> "open", tok |-> "b"]
                  ELSE [st |-> "idle", tok |-> None]]
  /\ clients = [u \in {"a", "b"} |-> IF u = "a" THEN << 1 >> ELSE << 2, 3 >>]
  /\ Idle(slots, requests)

InitTwoDevices == TwoDevices({1}, MaxOps)

\* The admin and the user connected as in Online, and an ONGOING call whose
\* record has lost one of its two participant rows (the rows live in the
\* database, which other writers share); the socket map either still holds
\* the remaining participant's socket or was emptied by a restart.
LoneParticipant(slots, requests) ==
  /\ sockets = [s \in SocketIds |->
                  IF s = 1 THEN [st |-> "open", tok |-> "a"]
                  ELSE IF s = 2 THEN [st |-> "open", tok |-> "b"]
                  ELSE [st |-> "idle", tok |-> None]]
  /\ clients = [u \in {"a", "b"} |-> IF u = "a" THEN << 1 >> ELSE << 2 >>]
  /\ \E u \in {"a", "b"}, kept \in BOOLEAN :
        /\ calls = [c \in {1} |->
                      [status |-> "ONGOING", initiatorId |-> "a",
                       participants |-> << [userId |-> u, status |-> "JOINED"] >>]]
        /\ callSocketMap = IF kept
                           THEN [c \in {1} |->
                                   MapSet(NoMap, u, IF u = "a" THEN 1 ELSE 2)]
                           ELSE NoMap
  /\ ringTimeouts = {}
  /\ armed = {}
  /\ cb = [c \in CallIds |-> "idle"]
  /\ tasks = [t \in slots |-> NoTask]
  /\ emitted = << >>
  /\ returned = NoResp
  /\ quota = requests
  /\ ledger = NoLedger

InitLoneParticipant == LoneParticipant(1..MaxTasks, MaxOps)

(* ------------------------- connection lifecycle ----------------------- *)
\* Socket ids are assigned by the transport: id k names the k-th connection.
NextSocket(s) == \A r \in SocketIds : r < s => sockets[r].st # "idle"

SetSocket(s, st, tok) == sockets' = [sockets EXCEPT ![s] = [st |-> st, tok |-> tok]]

CallStateUnchanged ==
  UNCHANGED << calls, callSocketMap, ringTimeouts, armed, cb, tasks, quota,
               ledger >>

\* handleConnection up to its await: the token is extracted and verified, the
\* user lookup is issued.  tok = None is a missing or unverifiable token.
handleConnection(s, tok) ==
  /\ sockets[s].st = "idle"
  /\ NextSocket(s)
  /\ IF tok = None
     THEN /\ SetSocket(s, "gone", None)
          /\ emitted' = << emitError(s, "Missing token") >>
     ELSE /\ SetSocket(s, "pending", tok)
          /\ emitted' = << >>
  /\ returned' = NoResp
  /\ UNCHANGED clients
  /\ CallStateUnchanged

\* handleConnection after prisma.user.findUnique resolved.  It runs whether
\* or not the transport has closed the connection in the meantime.
handleConnectionCont(s) ==
  /\ sockets[s].st \in {"pending", "pendingGone"}
  /\ IF sockets[s].tok \notin Users
     THEN /\ SetSocket(s, "gone", None)
          /\ emitted' = << emitError(s, "User not found") >>
          /\ UNCHANGED clients
     ELSE /\ SetSocket(s, IF sockets[s].st = "pending" THEN "open" ELSE "gone",
                       sockets[s].tok)
          /\ clients' = subscribeClient(clients, sockets[s].tok, s)
          /\ emitted' = << Ev(s, "success", GhostCall, sockets[s].tok, None) >>
  /\ returned' = NoResp
  /\ CallStateUnchanged

\* the connections the transport has closed
Closed == { s \in SocketIds : sockets[s].st \in {"pendingGone", "gone"}
                               /\ sockets[s].tok # None }

\* a disconnection that also drops the socket map entries naming the socket
handleDisconnect_DropsRoutes(s) ==
  /\ Connected(s)
  /\ Cardinality(Closed) < MaxCloses
  /\ IF UserIdOf(s) # None
     THEN /\ clients' = unsubscribeClient(clients, UserIdOf(s), s)
          /\ SetSocket(s, "gone", sockets[s].tok)
     ELSE /\ UNCHANGED clients
          /\ SetSocket(s, "pendingGone", sockets[s].tok)
  /\ callSocketMap' =
        [ c \in { d \in DOMAIN callSocketMap :
                    \A u \in DOMAIN callSocketMap[d] : callSocketMap[d][u] # s }
            |-> callSocketMap[c] ]
  /\ emitted' = << >>
  /\ returned' = NoResp
  /\ UNCHANGED << calls, ringTimeouts, armed, cb, tasks, quota, ledger >>

handleDisconnect(s) ==
  /\ Connected(s)
  /\ Cardinality(Closed) < MaxCloses
  /\ IF UserIdOf(s) # None
     THEN /\ clients' = unsubscribeClient(clients, UserIdOf(s), s)
          /\ SetSocket(s, "gone", sockets[s].tok)
     ELSE /\ UNCHANGED clients
          /\ SetSocket(s, "pendingGone", sockets[s].tok)
  /\ emitted' = << >>
  /\ returned' = NoResp
  /\ CallStateUnchanged

(* ------------------------------- tasks -------------------------------- *)
FreeTask == \E t \in DOMAIN tasks : tasks[t].op = None

\* a handler starts in the lowest free slot
Spawn(rec) ==
  LET t == CHOOSE i \in DOMAIN tasks :
             /\ tasks[i].op = None
             /\ \A j \in DOMAIN tasks : j < i => tasks[j].op # None
  IN  tasks' = [tasks EXCEPT ![t] = rec]

Finish(t) == tasks' = [tasks EXCEPT ![t] = NoTask]

At(t, op, pc) == tasks[t].op = op /\ tasks[t].pc = pc

\* A call id is known to clients once initiateCall has returned or emitted it.
Published(c) ==
  /\ c \in DOMAIN calls
  /\ \A t \in DOMAIN tasks : ~(tasks[t].op = "initiate" /\ tasks[t].call = c)

\* the call ids a client may send: those published, or one that has no record
Sendable == { c \in CallIds : Published(c) } \cup {GhostCall}

\* `if (!userId) return emitError(client, 'Unauthorized')`
Unauthorized(s, op) ==
  /\ emitted' = << emitError(s, "Unauthorized") >>
  /\ returned' = Resp(s, op, FALSE, "Unauthorized")
  /\ UNCHANGED << sockets, clients, calls, callSocketMap, ringTimeouts, armed, cb,
                  tasks, quota, ledger >>

\* the handler goes on to its first await
Issue(s, op, arg, call, pc) ==
  /\ FreeTask
  /\ quota > 0
  /\ quota' = quota - 1
  /\ Spawn([NoTask EXCEPT !.op = op, !.sock = s, !.user = UserIdOf(s),
                          !.arg = arg, !.call = call, !.pc = pc])
  /\ emitted' = << >>
  /\ returned' = NoResp
  /\ UNCHANGED << ledger, sockets, clients, calls, callSocketMap, ringTimeouts,
                  armed, cb >>

\* a persistence step: only the call records and the handler's position change
DbStep(t, newCalls, pc, snap, idx) ==
  /\ calls' = newCalls
  /\ tasks' = [tasks EXCEPT ![t].pc = pc, ![t].snap = snap, ![t].idx = idx]
  /\ emitted' = << >>
  /\ returned' = NoResp
  /\ UNCHANGED << ledger, quota, sockets, clients, callSocketMap, ringTimeouts, armed, cb >>

\* a failure that is returned but not emitted
Fail_Silent(t, message) ==
  /\ emitted' = << >>
  /\ returned' = Resp(tasks[t].sock, tasks[t].op, FALSE, message)
  /\ Finish(t)
  /\ UNCHANGED << ledger, quota, sockets, clients, calls, callSocketMap, ringTimeouts, armed, cb >>

\* the handler returns emitError(client, message)
Fail(t, message) ==
  /\ emitted' = << emitError(tasks[t].sock, message) >>
  /\ returned' = Resp(tasks[t].sock, tasks[t].op, FALSE, message)
  /\ Finish(t)
  /\ UNCHANGED << ledger, quota, sockets, clients, calls, callSocketMap, ringTimeouts, armed, cb >>

UserIds(rows) == [ i \in 1..Len(rows) |-> rows[i].userId ]

ReadCall(c, withStatus) ==
  IF c \in DOMAIN calls
  THEN [status |-> IF withStatus THEN calls[c].status ELSE None,
        userIds |-> UserIds(calls[c].participants)]
  ELSE NoSnap

SetStatus(c, st) == [calls EXCEPT ![c].status = st]

\* the event for a resolved target, nothing for a null one
EmitTo(target, ev, call, from) ==
  IF target = NoSocket THEN << >> ELSE << Ev(target, ev, call, from, None) >>

(* ---------------------------- initiateCall ---------------------------- *)
CallerIdx(conv, callerId) ==
  FindIdx([ i \in 1..Len(Conversations[conv]) |->
              /\ Conversations[conv][i].userId = callerId
              /\ Conversations[conv][i].type = "ADMIN_GROUP" ])

UserIdx(conv) ==
  FindIdx([ i \in 1..Len(Conversations[conv]) |->
              /\ Conversations[conv][i].type = "USER"
              /\ Conversations[conv][i].userId # None ])

\* the message of the precondition initiateCall finds broken, None when none is
InitiateError(conv, callerId) ==
  IF conv \notin DOMAIN Conversations THEN "Conversation not found"
  ELSE IF CallerIdx(conv, callerId) = 0 THEN "Only admins may initiate calls"
  ELSE IF UserIdx(conv) = 0 THEN "No user in conversation to call"
  ELSE None

Callee(conv) == Conversations[conv][UserIdx(conv)].userId

\* a create that inserts the callee as JOINED
NewCall_CalleeJoined(conv, callerId) ==
  [status |-> "INITIATED", initiatorId |-> callerId,
   participants |-> << [userId |-> callerId, status |-> "JOINED"],
                       [userId |-> Callee(conv), status |-> "JOINED"] >>]

\* the row prisma.privateCall.create inserts, with its two participant rows
NewCall(conv, callerId) ==
  [status |-> "INITIATED", initiatorId |-> callerId,
   participants |-> << [userId |-> callerId, status |-> "JOINED"],
                       [userId |-> Callee(conv), status |-> "MISSED"] >>]

\* calls created or about to be
CallsInUse ==
  Cardinality(DOMAIN calls)
    + Cardinality({ t \in DOMAIN tasks : At(t, "initiate", "init_found")
                                     /\ InitiateError(tasks[t].arg, tasks[t].user) = None })

\* initiateCall up to `await privateConversation.findUnique` (the conversation
\* rows never change, so the read is taken here)
initiateCall(s, conv) ==
  /\ Connected(s)
  /\ IF UserIdOf(s) = None
     THEN Unauthorized(s, "initiate")
     ELSE /\ InitiateError(conv, UserIdOf(s)) = None => CallsInUse < MaxCalls
          /\ Issue(s, "initiate", conv, GhostCall, "init_found")

\* one of the three precondition failures
initiateCallReject(t) ==
  /\ At(t, "initiate", "init_found")
  /\ InitiateError(tasks[t].arg, tasks[t].user) # None
  /\ Fail(t, InitiateError(tasks[t].arg, tasks[t].user))

\* prisma.privateCall.create takes effect
initiateCallDbCreate(t) ==
  /\ At(t, "initiate", "init_found")
  /\ InitiateError(tasks[t].arg, tasks[t].user) = None
  /\ LET c  == CHOOSE i \in CallIds \ DOMAIN calls :
                  \A j \in CallIds \ DOMAIN calls : i <= j
         nc == NewCall(tasks[t].arg, tasks[t].user)
     IN  /\ calls' = MapSet(calls, c, nc)
         /\ tasks' = [tasks EXCEPT ![t].pc = "init_created", ![t].call = c]
  /\ emitted' = << >>
  /\ returned' = NoResp
  /\ UNCHANGED << ledger, quota, sockets, clients, callSocketMap, ringTimeouts, armed, cb >>

\* an initiateCall that also records the socket it notified for the callee
initiateCallDone_RecordsCallee(t) ==
  /\ At(t, "initiate", "init_created")
  /\ LET c      == tasks[t].call
         callee == Callee(tasks[t].arg)
         m      == MapSet(callSocketMap, c,
                          MapSet(NoMap, tasks[t].user, tasks[t].sock))
         target == findTargetIn(m, c, callee, NoSocket, NoSocket)
         rt     == setRingTimeout(ringTimeouts, armed, c)
     IN  /\ callSocketMap' = IF target = NoSocket THEN m
                             ELSE recordRoute(m, c, callee, target)
         /\ emitted' = EmitTo(target, "call.incoming", c, tasks[t].user)
         /\ ringTimeouts' = rt[1]
         /\ armed' = rt[2]
         /\ returned' = Resp(tasks[t].sock, "initiate", TRUE, "Call initiated")
  /\ Finish(t)
  /\ UNCHANGED << ledger, quota, sockets, clients, calls, cb >>

\* an initiateCall that reports an unreachable callee as an error
initiateCallDone_FailsOffline(t) ==
  /\ At(t, "initiate", "init_created")
  /\ LET c      == tasks[t].call
         callee == Callee(tasks[t].arg)
         m      == MapSet(callSocketMap, c,
                          MapSet(NoMap, tasks[t].user, tasks[t].sock))
         target == findTargetIn(m, c, callee, NoSocket, NoSocket)
         rt     == setRingTimeout(ringTimeouts, armed, c)
     IN  /\ callSocketMap' = m
         /\ emitted' = IF target = NoSocket
                       THEN << emitError(tasks[t].sock, "Recipient not available") >>
                       ELSE EmitTo(target, "call.incoming", c, tasks[t].user)
         /\ ringTimeouts' = rt[1]
         /\ armed' = rt[2]
         /\ returned' = Resp(tasks[t].sock, "initiate", target # NoSocket,
                             "Call initiated")
  /\ Finish(t)
  /\ UNCHANGED << ledger, quota, sockets, clients, calls, cb >>

\* the rest of initiateCall: record the caller's socket, notify the callee,
\* arm the ring timer
initiateCallDone(t) ==
  /\ At(t, "initiate", "init_created")
  /\ LET c      == tasks[t].call
         callee == Callee(tasks[t].arg)
         m      == MapSet(callSocketMap, c,
                          MapSet(NoMap, tasks[t].user, tasks[t].sock))
         target == findTargetIn(m, c, callee, NoSocket, NoSocket)
         rt     == setRingTimeout(ringTimeouts, armed, c)
     IN  /\ callSocketMap' = m
         /\ emitted' = EmitTo(target, "call.incoming", c, tasks[t].user)
         /\ ringTimeouts' = rt[1]
         /\ armed' = rt[2]
         /\ returned' = Resp(tasks[t].sock, "initiate", TRUE, "Call initiated")
  /\ Finish(t)
  /\ UNCHANGED << ledger, quota, sockets, clients, calls, cb >>

(* ----------------------------- acceptCall ----------------------------- *)
acceptCall(s, c) ==
  /\ Connected(s)
  /\ c \in Sendable
  /\ IF UserIdOf(s) = None
     THEN Unauthorized(s, "accept")
     ELSE Issue(s, "accept", None, c, "acc_find")

\* privateCall.findUnique with its participants
acceptCallDbFind(t) ==
  /\ At(t, "accept", "acc_find")
  /\ DbStep(t, calls, "acc_found", ReadCall(tasks[t].call, TRUE), 0)

\* a refusal that records the sender's socket under the unknown call id
acceptCallNotFound_RecordsRoute(t) ==
  /\ At(t, "accept", "acc_found")
  /\ tasks[t].snap = NoSnap
  /\ emitted' = << emitError(tasks[t].sock, "Call not found") >>
  /\ returned' = Resp(tasks[t].sock, tasks[t].op, FALSE, "Call not found")
  /\ callSocketMap' = recordRoute(callSocketMap, tasks[t].call, tasks[t].user,
                                  tasks[t].sock)
  /\ Finish(t)
  /\ UNCHANGED << ledger, quota, sockets, clients, calls, ringTimeouts, armed, cb >>

acceptCallNotFound(t) ==
  /\ At(t, "accept", "acc_found")
  /\ tasks[t].snap = NoSnap
  /\ Fail(t, "Call not found")

\* the participant row is updated to JOINED, or created when the snapshot
\* holds none for the user
acceptCallDbParticipant(t) ==
  /\ At(t, "accept", "acc_found")
  /\ tasks[t].snap # NoSnap
  /\ LET c        == tasks[t].call
         userId   == tasks[t].user
         existing == FindIdx([ i \in 1..Len(tasks[t].snap.userIds) |->
                                 tasks[t].snap.userIds[i] = userId ])
         rows     == calls[c].participants
         newRows  == IF existing # 0
                     THEN [rows EXCEPT ![existing].status = "JOINED"]
                     ELSE Append(rows, [userId |-> userId, status |-> "JOINED"])
     IN  DbStep(t, [calls EXCEPT ![c].participants = newRows],
                "acc_part_done", tasks[t].snap, existing)

\* an update to ONGOING that does not test the status read
acceptCallDbStatus_Always(t) ==
  /\ At(t, "accept", "acc_part_done")
  /\ DbStep(t, SetStatus(tasks[t].call, "ONGOING"), "acc_status_done",
            tasks[t].snap, tasks[t].idx)

\* `if (call.status === INITIATED)` on the snapshot, then the update to ONGOING
acceptCallDbStatus(t) ==
  /\ At(t, "accept", "acc_part_done")
  /\ tasks[t].snap.status = "INITIATED"
  /\ DbStep(t, SetStatus(tasks[t].call, "ONGOING"), "acc_status_done",
            tasks[t].snap, tasks[t].idx)

\* record the socket, clear the ring timeout, notify the other participant
\* an acceptance that leaves the ring timer armed
acceptCallTail_KeepRinging(t) ==
  LET c         == tasks[t].call
      userId    == tasks[t].user
      m         == recordRoute(callSocketMap, c, userId, tasks[t].sock)
      initiator == FindIdx([ i \in 1..Len(tasks[t].snap.userIds) |->
                                tasks[t].snap.userIds[i] # userId ])
      target    == IF initiator = 0 THEN NoSocket
                   ELSE findTargetIn(m, c, tasks[t].snap.userIds[initiator],
                                     NoSocket, NoSocket)
  IN  /\ callSocketMap' = m
      /\ UNCHANGED << ringTimeouts, armed >>
      /\ emitted' = EmitTo(target, "call.accepted", c, userId)
      /\ returned' = Resp(tasks[t].sock, "accept", TRUE, "Call accepted")
      /\ Finish(t)
      /\ UNCHANGED << ledger, quota, sockets, clients, calls, cb >>

acceptCallTail(t) ==
  LET c         == tasks[t].call
      userId    == tasks[t].user
      m         == recordRoute(callSocketMap, c, userId, tasks[t].sock)
      rt        == clearRingTimeout(ringTimeouts, armed, c)
      initiator == FindIdx([ i \in 1..Len(tasks[t].snap.userIds) |->
                                tasks[t].snap.userIds[i] # userId ])
      target    == IF initiator = 0 THEN NoSocket
                   ELSE findTargetIn(m, c, tasks[t].snap.userIds[initiator],
                                     NoSocket, NoSocket)
  IN  /\ callSocketMap' = m
      /\ ringTimeouts' = rt[1]
      /\ armed' = rt[2]
      /\ emitted' = EmitTo(target, "call.accepted", c, userId)
      /\ returned' = Resp(tasks[t].sock, "accept", TRUE, "Call accepted")
      /\ Finish(t)
      /\ UNCHANGED << ledger, quota, sockets, clients, calls, cb >>

\* the call was no longer INITIATED in the snapshot: no status update
acceptCallDoneNoStatus(t) ==
  /\ At(t, "accept", "acc_part_done")
  /\ tasks[t].snap.status # "INITIATED"
  /\ acceptCallTail(t)

acceptCallDone(t) ==
  /\ At(t, "accept", "acc_status_done")
  /\ acceptCallTail(t)

(* ----------------------------- rejectCall ----------------------------- *)
rejectCall(s, c) ==
  /\ Connected(s)
  /\ c \in Sendable
  /\ IF UserIdOf(s) = None
     THEN Unauthorized(s, "reject")
     ELSE Issue(s, "reject", None, c, "rej_find")

rejectCallDbFind(t) ==
  /\ At(t, "reject", "rej_find")
  /\ DbStep(t, calls, "rej_found", ReadCall(tasks[t].call, FALSE), 0)

rejectCallNotFound(t) ==
  /\ At(t, "reject", "rej_found")
  /\ tasks[t].snap = NoSnap
  /\ Fail(t, "Call not found")

\* privateCallParticipant.updateMany where { callId, userId }
rejectCallDbParticipant(t) ==
  /\ At(t, "reject", "rej_found")
  /\ tasks[t].snap # NoSnap
  /\ LET c    == tasks[t].call
         rows == calls[c].participants
         newRows == [ i \in 1..Len(rows) |->
                        IF rows[i].userId = tasks[t].user
                        THEN [rows[i] EXCEPT !.status = "MISSED"]
                        ELSE rows[i] ]
     IN  DbStep(t, [calls EXCEPT ![c].participants = newRows],
                "rej_part_done", tasks[t].snap, 0)

\* an update to MISSED that spares a call that is no longer INITIATED
rejectCallDbStatus_OnlyRinging(t) ==
  /\ At(t, "reject", "rej_part_done")
  /\ DbStep(t, IF calls[tasks[t].call].status = "INITIATED"
               THEN SetStatus(tasks[t].call, "MISSED") ELSE calls,
            "rej_status_done", tasks[t].snap, 0)

\* privateCall.update to MISSED, whatever the status is
rejectCallDbStatus(t) ==
  /\ At(t, "reject", "rej_part_done")
  /\ DbStep(t, SetStatus(tasks[t].call, "MISSED"), "rej_status_done",
            tasks[t].snap, 0)

\* clear the ring timeout, drop the socket map entry, notify the other side
rejectCallDone_ResolvesFirst(t) ==
  /\ At(t, "reject", "rej_status_done")
  /\ LET c         == tasks[t].call
         userId    == tasks[t].user
         rt        == clearRingTimeout(ringTimeouts, armed, c)
         m         == MapDelete(callSocketMap, c)
         initiator == FindIdx([ i \in 1..Len(tasks[t].snap.userIds) |->
                                tasks[t].snap.userIds[i] # userId ])
         target    == IF initiator = 0 THEN NoSocket
                      ELSE findTargetIn(callSocketMap, c,
                                        tasks[t].snap.userIds[initiator],
                                        NoSocket, NoSocket)
     IN  /\ ringTimeouts' = rt[1]
         /\ armed' = rt[2]
         /\ callSocketMap' = m
         /\ emitted' = EmitTo(target, "call.missed", c, userId)
         /\ returned' = Resp(tasks[t].sock, "reject", TRUE, "Call rejected")
  /\ Finish(t)
  /\ UNCHANGED << ledger, quota, sockets, clients, calls, cb >>

rejectCallDone(t) ==
  /\ At(t, "reject", "rej_status_done")
  /\ LET c         == tasks[t].call
         userId    == tasks[t].user
         rt        == clearRingTimeout(ringTimeouts, armed, c)
         m         == MapDelete(callSocketMap, c)
         initiator == FindIdx([ i \in 1..Len(tasks[t].snap.userIds) |->
                                tasks[t].snap.userIds[i] # userId ])
         target    == IF initiator = 0 THEN NoSocket
                      ELSE findTargetIn(m, c, tasks[t].snap.userIds[initiator],
                                        NoSocket, NoSocket)
     IN  /\ ringTimeouts' = rt[1]
         /\ armed' = rt[2]
         /\ callSocketMap' = m
         /\ emitted' = EmitTo(target, "call.missed", c, userId)
         /\ returned' = Resp(tasks[t].sock, "reject", TRUE, "Call rejected")
  /\ Finish(t)
  /\ UNCHANGED << ledger, quota, sockets, clients, calls, cb >>

(* ------------------------------ endCall ------------------------------- *)
\* endCall reads client.data.userId but does not test it
endCall(s, c) ==
  /\ Connected(s)
  /\ c \in Sendable
  /\ Issue(s, "end", None, c, "end_update")

\* privateCall.update to ENDED, returning the row with its participants; the
\* update throws when the row does not exist
endCallDbStatus(t) ==
  /\ At(t, "end", "end_update")
  /\ IF tasks[t].call \in DOMAIN calls
     THEN LET nc == SetStatus(tasks[t].call, "ENDED")
          IN  DbStep(t, nc, "end_updated", ReadCall(tasks[t].call, FALSE), 0)
     ELSE DbStep(t, calls, "end_throw", NoSnap, 0)

\* the events of the loop over call.participants
RECURSIVE EndEvents(_, _, _)
EndEvents(m, c, userIds) ==
  IF Len(userIds) = 0 THEN << >>
  ELSE EmitTo(findTargetIn(m, c, Head(userIds), NoSocket, NoSocket),
              "call.ended", c, None)
         \o EndEvents(m, c, Tail(userIds))

\* an endCall that drops the socket map entry before it resolves targets
endCallDone_DropsFirst(t) ==
  /\ At(t, "end", "end_updated")
  /\ LET c  == tasks[t].call
         rt == clearRingTimeout(ringTimeouts, armed, c)
     IN  /\ ringTimeouts' = rt[1]
         /\ armed' = rt[2]
         /\ emitted' = EndEvents(MapDelete(callSocketMap, c), c, tasks[t].snap.userIds)
         /\ callSocketMap' = MapDelete(callSocketMap, c)
         /\ returned' = Resp(tasks[t].sock, "end", TRUE, "Call ended")
  /\ Finish(t)
  /\ UNCHANGED << ledger, quota, sockets, clients, calls, cb >>

endCallDone(t) ==
  /\ At(t, "end", "end_updated")
  /\ LET c  == tasks[t].call
         rt == clearRingTimeout(ringTimeouts, armed, c)
     IN  /\ ringTimeouts' = rt[1]
         /\ armed' = rt[2]
         /\ emitted' = EndEvents(callSocketMap, c, tasks[t].snap.userIds)
         /\ callSocketMap' = MapDelete(callSocketMap, c)
         /\ returned' = Resp(tasks[t].sock, "end", TRUE, "Call ended")
  /\ Finish(t)
  /\ UNCHANGED << ledger, quota, sockets, clients, calls, cb >>

\* the @HandleError decorator around a handler that threw: the error is
\* turned into a failure response for the caller
HandleError(s, op, message) == Resp(s, op, FALSE, message)

\* the failure the decorator reports is delivered to the sender's connection
\* as an error event, like every other failure
HandleErrorEvent(s, message) == emitError(s, message)

endCallThrow(t) ==
  /\ At(t, "end", "end_throw")
  /\ emitted' = << HandleErrorEvent(tasks[t].sock, "Failed to end call") >>
  /\ returned' = HandleError(tasks[t].sock, "end", "Failed to end call")
  /\ Finish(t)
  /\ UNCHANGED << ledger, quota, sockets, clients, calls, callSocketMap, ringTimeouts, armed, cb >>

(* --------------------- forwardOffer/Answer/Candidate ------------------ *)
RelayEvent(op) ==
  IF op = "offer" THEN "rtc.offer"
  ELSE IF op = "answer" THEN "rtc.answer"
  ELSE "rtc.ice-candidate"

\* The three relay handlers differ in the tag of the event they emit and in
\* nothing else, and payload.to is read by the last step only: both are values
\* of the request and are drawn where they are first read.
forward(op, s, c) ==
  /\ Connected(s)
  /\ c \in Sendable
  /\ IF UserIdOf(s) = None
     THEN Unauthorized(s, op)
     ELSE Issue(s, "forward", None, c, "fwd_find")

forwardDbFind(t) ==
  /\ At(t, "forward", "fwd_find")
  /\ DbStep(t, calls, "fwd_found", ReadCall(tasks[t].call, FALSE), 0)

\* index in the snapshot of `call.participants.find((p) => p.userId !== from)`
OtherIdx(t) ==
  FindIdx([ i \in 1..Len(tasks[t].snap.userIds) |->
              tasks[t].snap.userIds[i] # tasks[t].user ])

RelayTarget(t, to) ==
  findTargetSocketForRecipient(tasks[t].call, tasks[t].snap.userIds[OtherIdx(t)],
                               to, tasks[t].sock)

\* the message of the check the relay fails, None when it goes through
RelayError_LiveCallsOnly(t, to) ==
  IF tasks[t].snap = NoSnap THEN "Call not found"
  ELSE IF calls[tasks[t].call].status \in {"ENDED", "MISSED"}
       THEN "Call not active"
  ELSE IF OtherIdx(t) = 0 THEN "Recipient not found"
  ELSE IF RelayTarget(t, to) = NoSocket THEN "Recipient not available"
  ELSE None

RelayError(t, to) ==
  IF tasks[t].snap = NoSnap THEN "Call not found"
  ELSE IF OtherIdx(t) = 0 THEN "Recipient not found"
  ELSE IF RelayTarget(t, to) = NoSocket THEN "Recipient not available"
  ELSE None

\* a failing relay that records the sender's socket all the same
forwardFail_RecordsRoute(t, to) ==
  /\ At(t, "forward", "fwd_found")
  /\ RelayError(t, to) # None
  /\ emitted' = << emitError(tasks[t].sock, RelayError(t, to)) >>
  /\ returned' = Resp(tasks[t].sock, tasks[t].op, FALSE, RelayError(t, to))
  /\ callSocketMap' = recordRoute(callSocketMap, tasks[t].call, tasks[t].user,
                                  tasks[t].sock)
  /\ Finish(t)
  /\ UNCHANGED << ledger, quota, sockets, clients, calls, ringTimeouts, armed, cb >>

forwardFail(t, to) ==
  /\ At(t, "forward", "fwd_found")
  /\ RelayError(t, to) # None
  /\ Fail(t, RelayError(t, to))

\* a relay that emits every payload as an offer
forwardDone_AlwaysOffer(t, op, to) ==
  /\ At(t, "forward", "fwd_found")
  /\ RelayError(t, to) = None
  /\ emitted' = EmitTo(RelayTarget(t, to), RelayEvent("offer"),
                       tasks[t].call, tasks[t].user)
  /\ callSocketMap' = recordRoute(callSocketMap, tasks[t].call, tasks[t].user,
                                  tasks[t].sock)
  /\ returned' = Resp(tasks[t].sock, op, TRUE, "forwarded")
  /\ Finish(t)
  /\ UNCHANGED << ledger, quota, sockets, clients, calls, ringTimeouts, armed, cb >>

\* a relay that cancels the ring timer of its call
forwardDone_ClearsTimer(t, op, to) ==
  /\ At(t, "forward", "fwd_found")
  /\ RelayError(t, to) = None
  /\ emitted' = EmitTo(RelayTarget(t, to), RelayEvent(op),
                       tasks[t].call, tasks[t].user)
  /\ callSocketMap' = recordRoute(callSocketMap, tasks[t].call, tasks[t].user,
                                  tasks[t].sock)
  /\ returned' = Resp(tasks[t].sock, op, TRUE, "forwarded")
  /\ Finish(t)
  /\ LET rt == clearRingTimeout(ringTimeouts, armed, tasks[t].call)
     IN  ringTimeouts' = rt[1] /\ armed' = rt[2]
  /\ UNCHANGED << ledger, quota, sockets, clients, calls, cb >>

forwardDone(t, op, to) ==
  /\ At(t, "forward", "fwd_found")
  /\ RelayError(t, to) = None
  /\ emitted' = EmitTo(RelayTarget(t, to), RelayEvent(op),
                       tasks[t].call, tasks[t].user)
  /\ callSocketMap' = recordRoute(callSocketMap, tasks[t].call, tasks[t].user,
                                  tasks[t].sock)
  /\ returned' = Resp(tasks[t].sock, op, TRUE, "forwarded")
  /\ Finish(t)
  /\ UNCHANGED << ledger, quota, sockets, clients, calls, ringTimeouts, armed, cb >>

(* ---------------------------- ring timeout ---------------------------- *)
\* the timer fires: the callback runs up to `await privateCall.update`
ringTimeoutFire(c) ==
  /\ c \in armed
  /\ armed' = armed \ {c}
  /\ cb' = [cb EXCEPT ![c] = "update"]
  /\ emitted' = << >>
  /\ returned' = NoResp
  /\ UNCHANGED << ledger, quota, sockets, clients, calls, callSocketMap, ringTimeouts, tasks >>

\* the update to MISSED takes effect, or the persistence layer fails it
ringTimeoutDb(c, ok) ==
  /\ cb[c] = "update"
  /\ calls' = IF ok THEN SetStatus(c, "MISSED") ELSE calls
  /\ cb' = [cb EXCEPT ![c] = IF ok THEN "updated" ELSE "failed"]
  /\ emitted' = << >>
  /\ returned' = NoResp
  /\ UNCHANGED << ledger, quota, sockets, clients, callSocketMap, ringTimeouts, armed, tasks >>

\* a callback whose failure leaves the timer entry behind
ringTimeoutDone_LeaksOnFailure(c) ==
  /\ cb[c] \in {"updated", "failed"}
  /\ LET rt == IF cb[c] = "failed" THEN << ringTimeouts, armed >>
               ELSE clearRingTimeout(ringTimeouts, armed, c)
     IN  /\ ringTimeouts' = rt[1]
         /\ armed' = rt[2]
  /\ callSocketMap' = IF cb[c] = "updated" THEN MapDelete(callSocketMap, c)
                      ELSE callSocketMap
  /\ cb' = [cb EXCEPT ![c] = "idle"]
  /\ emitted' = << >>
  /\ returned' = NoResp
  /\ UNCHANGED << ledger, quota, sockets, clients, calls, tasks >>

\* a callback that leaves the socket map entry in place
ringTimeoutDone_KeepEntry(c) ==
  /\ cb[c] \in {"updated", "failed"}
  /\ LET rt == clearRingTimeout(ringTimeouts, armed, c)
     IN  /\ ringTimeouts' = rt[1]
         /\ armed' = rt[2]
  /\ cb' = [cb EXCEPT ![c] = "idle"]
  /\ emitted' = << >>
  /\ returned' = NoResp
  /\ UNCHANGED << ledger, quota, sockets, clients, calls, callSocketMap, tasks >>

\* after the update: drop the socket map entry; catch: log; finally: clear
ringTimeoutDone(c) ==
  /\ cb[c] \in {"updated", "failed"}
  /\ callSocketMap' = IF cb[c] = "updated" THEN MapDelete(callSocketMap, c)
                      ELSE callSocketMap
  /\ LET rt == clearRingTimeout(ringTimeouts, armed, c)
     IN  /\ ringTimeouts' = rt[1]
         /\ armed' = rt[2]
  /\ cb' = [cb EXCEPT ![c] = "idle"]
  /\ emitted' = << >>
  /\ returned' = NoResp
  /\ UNCHANGED << ledger, quota, sockets, clients, calls, tasks >>

(* ------------------------------- Next --------------------------------- *)
NextConn ==
  \/ \E s \in SocketIds, tok \in Users \cup {Ghost, None} : handleConnection(s, tok)
  \/ \E s \in SocketIds : handleConnectionCont(s)
  \/ \E s \in SocketIds : handleDisconnect(s)

NextCall ==
  \/ \E s \in SocketIds, conv \in ConversationIds : initiateCall(s, conv)
  \/ \E t \in DOMAIN tasks : initiateCallReject(t)
  \/ \E t \in DOMAIN tasks : initiateCallDbCreate(t)
  \/ \E t \in DOMAIN tasks : initiateCallDone(t)
  \/ \E s \in SocketIds, c \in CallIds \cup {GhostCall} : acceptCall(s, c)
  \/ \E t \in DOMAIN tasks : acceptCallDbFind(t)
  \/ \E t \in DOMAIN tasks : acceptCallNotFound(t)
  \/ \E t \in DOMAIN tasks : acceptCallDbParticipant(t)
  \/ \E t \in DOMAIN tasks : acceptCallDbStatus(t)
  \/ \E t \in DOMAIN tasks : acceptCallDoneNoStatus(t)
  \/ \E t \in DOMAIN tasks : acceptCallDone(t)
  \/ \E s \in SocketIds, c \in CallIds \cup {GhostCall} : rejectCall(s, c)
  \/ \E t \in DOMAIN tasks : rejectCallDbFind(t)
  \/ \E t \in DOMAIN tasks : rejectCallNotFound(t)
  \/ \E t \in DOMAIN tasks : rejectCallDbParticipant(t)
  \/ \E t \in DOMAIN tasks : rejectCallDbStatus(t)
  \/ \E t \in DOMAIN tasks : rejectCallDone(t)
  \/ \E s \in SocketIds, c \in CallIds \cup {GhostCall} : endCall(s, c)
  \/ \E t \in DOMAIN tasks : endCallDbStatus(t)
  \/ \E t \in DOMAIN tasks : endCallDone(t)
  \/ \E t \in DOMAIN tasks : endCallThrow(t)
  \/ \E op \in RelayOps, s \in SocketIds, c \in CallIds \cup {GhostCall} :
        forward(op, s, c)
  \/ \E t \in DOMAIN tasks : forwardDbFind(t)
  \/ \E t \in DOMAIN tasks, to \in SocketIds \cup {NoSocket} : forwardFail(t, to)
  \/ \E t \in DOMAIN tasks, op \in RelayOps, to \in SocketIds \cup {NoSocket} :
        forwardDone(t, op, to)
  \/ \E c \in CallIds : ringTimeoutFire(c)
  \/ \E c \in CallIds, ok \in BOOLEAN : ringTimeoutDb(c, ok)
  \/ \E c \in CallIds : ringTimeoutDone(c)

Next == NextConn \/ NextCall

\* the gateway from its construction on
Spec == Init /\ [][Next]_vars

\* connections only, from construction: no request is ever sent
SpecConn == Init /\ [][NextConn]_vars

\* the two participants' connections, which may close, and up to MaxTasks
\* handlers in flight at once; no further connection is opened
NextPair == NextCall \/ \E s \in SocketIds : handleDisconnect(s)

SpecConcurrent == InitConcurrent /\ [][NextPair]_vars

\* the two participants' connections and one handler at a time, next to the
\* connection events and the ring-timeout callback
SpecSequential == InitSequential /\ [][NextPair]_vars

\* the same, with a timer that fires once due unless it is cleared, a
\* persistence layer that answers the callback and a callback that runs on
RingFairness ==
  /\ WF_vars(\E c \in CallIds : ringTimeoutFire(c))
  /\ WF_vars(\E c \in CallIds, ok \in BOOLEAN : ringTimeoutDb(c, ok))
  /\ WF_vars(\E c \in CallIds : ringTimeoutDone(c))

\* the relay handlers and disconnection alone
NextRelay ==
  \/ \E op \in RelayOps, s \in SocketIds, c \in CallIds \cup {GhostCall} :
        forward(op, s, c)
  \/ \E t \in DOMAIN tasks : forwardDbFind(t)
  \/ \E t \in DOMAIN tasks, to \in SocketIds \cup {NoSocket} : forwardFail(t, to)
  \/ \E t \in DOMAIN tasks, op \in RelayOps, to \in SocketIds \cup {NoSocket} :
        forwardDone(t, op, to)
  \/ \E s \in SocketIds : handleDisconnect(s)

\* relays on a call record that has a single participant row
SpecLoneParticipant == InitLoneParticipant /\ [][NextRelay]_vars

\* one handler at a time, the callee on two connections
SpecTwoDevices == InitTwoDevices /\ [][NextPair]_vars

SpecSequentialFair == InitSequential /\ [][NextPair]_vars /\ RingFairness

\* a third connection may open under any token; one handler at a time, next
\* to the connection events and the ring-timeout callback
SpecSerial == InitSerial /\ [][Next]_vars

(* ------------------------------ properties ---------------------------- *)
Terminal == {"ENDED", "MISSED"}

\* an acceptCall, rejectCall or endCall handler is in flight for call c
ActingOn(c) ==
  \E t \in DOMAIN tasks : tasks[t].op \in {"accept", "reject", "end"}
                            /\ tasks[t].call = c

\* C1: once the status of a call is ENDED or MISSED, no step changes it.
C1_TerminalIsFinal ==
  [][\A c \in DOMAIN calls :
        calls[c].status \in Terminal => calls'[c].status = calls[c].status]_vars

\* C2: the ring-timeout callback runs its update to MISSED only on a call
\* whose status no acceptCall, rejectCall or endCall has written: with no such
\* handler in flight, the call it updates is still INITIATED.
C2_NoMissedUpdateAfterAction ==
  [][\A c \in DOMAIN calls :
        (cb[c] = "update" /\ cb'[c] = "updated" /\ ~ActingOn(c))
          => calls[c].status = "INITIATED"]_vars

\* C3: no state has the status of a call written by acceptCall, rejectCall or
\* endCall while the ring timer of the call is still armed.
C3_NoWriteWhileArmed ==
  \A c \in armed : c \in DOMAIN calls => calls[c].status = "INITIATED"

\* the connections the registry holds for a user
Registered(u) == IF u \in DOMAIN clients THEN Range(clients[u]) ELSE {}

\* C4: a user is in the presence registry exactly when one of the user's
\* connections is live, every registered connection is live (also one that
\* closed while its authentication was pending), and no entry is empty.
C4_RegistryIsLive ==
  /\ \A u \in Users :
        isOnline(u) <=> \E s \in SocketIds : sockets[s] = [st |-> "open", tok |-> u]
  /\ \A u \in DOMAIN clients :
        /\ Len(clients[u]) > 0
        /\ \A s \in Registered(u) : sockets[s] = [st |-> "open", tok |-> u]

RelayEvents == { RelayEvent(op) : op \in RelayOps }

ParticipantsOf(c) ==
  IF c \in DOMAIN calls THEN Range(UserIds(calls[c].participants)) ELSE {}

\* C5: every relay event is sent for a participant of the call, to a
\* connection of the other participant.
C5_RelayBetweenParticipants ==
  \A i \in 1..Len(emitted) :
     emitted[i].ev \in RelayEvents =>
       /\ emitted[i].from \in ParticipantsOf(emitted[i].call)
       /\ sockets[emitted[i].to].tok
             \in ParticipantsOf(emitted[i].call) \ {emitted[i].from}

\* C6: whatever the arguments, a target the router resolves is a connection
\* the presence registry holds for the recipient at that moment.
C6_TargetIsRegistered ==
  \A c \in CallIds, u \in Users,
     to \in SocketIds \cup {NoSocket}, ex \in SocketIds \cup {NoSocket} :
     LET r == findTargetSocketForRecipient(c, u, to, ex)
     IN  r # NoSocket => r \in Registered(u)

\* the recorded socket of a user for a call, NoSocket when there is none
Recorded(c, u) ==
  IF c \in DOMAIN callSocketMap /\ u \in DOMAIN callSocketMap[c]
  THEN callSocketMap[c][u]
  ELSE NoSocket

\* the registered connection of u that was added first among those other than ex
FirstActive(u, ex) ==
  LET cand == Registered(u) \ {ex}
      pos(s) == CHOOSE i \in 1..Len(clients[u]) : clients[u][i] = s
  IN  IF cand = {} THEN NoSocket
      ELSE CHOOSE s \in cand : \A r \in cand : pos(s) <= pos(r)

\* C7: the router resolves by strict tiers: the hint when it names a
\* registered connection of the recipient other than the excluded one, else
\* the recorded socket when there is one other than the excluded one, else the
\* first registered connection other than the excluded one, else nothing.
C7_RouterTiers ==
  \A c \in CallIds \cup {GhostCall}, u \in Users,
     to \in SocketIds \cup {NoSocket}, ex \in SocketIds \cup {NoSocket} :
     LET r       == findTargetSocketForRecipient(c, u, to, ex)
         hintOk  == to # NoSocket /\ to \in Registered(u) \ {ex}
         recOk   == Recorded(c, u) \notin {NoSocket, ex}
     IN  /\ hintOk => r = to
         /\ ~hintOk /\ recOk => r = Recorded(c, u)
         /\ ~hintOk /\ ~recOk => r = FirstActive(u, ex)

\* C7 witness: a relay was delivered to a hinted connection although the
\* recipient has a recorded socket and an earlier registered connection, both
\* different from the hint.
C7_HintOverridesLowerTiers ==
  \E i \in 1..Len(emitted), u \in DOMAIN clients :
     /\ emitted[i].ev \in RelayEvents
     /\ emitted[i].to \in Registered(u)
     /\ emitted[i].to # clients[u][1]
     /\ Recorded(emitted[i].call, u) \notin {NoSocket, emitted[i].to}

\* C8: every call has exactly two participant rows.
C8_TwoParticipantRows ==
  \A c \in DOMAIN calls : Len(calls[c].participants) = 2

\* C9: in the state in which initiateCall returns success, the call it
\* created is INITIATED and has exactly two participant rows, the initiator's
\* JOINED and the callee's MISSED.
C9_AfterInitiate ==
  [][\A t \in DOMAIN tasks :
        (At(t, "initiate", "init_created") /\ tasks'[t].op = None) =>
          /\ returned'.ok
          /\ calls'[tasks[t].call].status = "INITIATED"
          /\ calls'[tasks[t].call].participants =
                << [userId |-> tasks[t].user, status |-> "JOINED"],
                   [userId |-> Conversations[tasks[t].arg][UserIdx(tasks[t].arg)].userId,
                    status |-> "MISSED"] >>]_vars

\* C9 witness: initiateCall has just returned success for a call to user b
\* while another handler is in flight.
C9_InitiateReturned ==
  /\ returned.op = "initiate" /\ returned.ok
  /\ 1 \in DOMAIN calls /\ calls[1].participants[2].userId = "b"
  /\ \E t \in DOMAIN tasks : tasks[t].op # None

\* C10: a step of a handler whose connection carries no user identity changes
\* no call, no socket map entry and no ring timer.
C10_NoIdentityNoMutation ==
  [][\A t \in DOMAIN tasks :
        (tasks[t].op # None /\ tasks[t].user = None /\ tasks'[t] # tasks[t]) =>
          UNCHANGED << calls, callSocketMap, ringTimeouts, armed >>]_vars

\* the USER-type participants of a conversation
UserParticipants(conv) ==
  { i \in 1..Len(Conversations[conv]) : Conversations[conv][i].type = "USER" }

\* C11: initiateCall creates a call only for a conversation in which the
\* acting user is an ADMIN_GROUP participant and exactly one participant is
\* of type USER.
C11_InitiatePreconditions ==
  [][\A t \in DOMAIN tasks :
        (At(t, "initiate", "init_found") /\ tasks'[t].pc = "init_created") =>
          /\ tasks[t].arg \in DOMAIN Conversations
          /\ \E i \in 1..Len(Conversations[tasks[t].arg]) :
                Conversations[tasks[t].arg][i] =
                  [userId |-> tasks[t].user, type |-> "ADMIN_GROUP"]
          /\ Cardinality(UserParticipants(tasks[t].arg)) = 1]_vars

\* the statuses of the participant rows of user u in the row of call c in cs
RowStatuses(cs, c, u) ==
  { cs[c].participants[i].status :
      i \in { j \in 1..Len(cs[c].participants) :
                cs[c].participants[j].userId = u } }

\* C12: an acceptCall that finds the call ONGOING does not perform the update
\* to ONGOING and none of its steps changes the call status; when it returns,
\* the row of the accepting user is JOINED.
C12_AcceptIdempotent ==
  [][\A t \in DOMAIN tasks :
        (tasks[t].op = "accept" /\ tasks[t].snap.status = "ONGOING"
           /\ tasks'[t] # tasks[t]) =>
          /\ tasks'[t].pc # "acc_status_done"
          /\ calls'[tasks[t].call].status = calls[tasks[t].call].status
          /\ tasks'[t].op = None =>
                /\ returned'.ok
                /\ RowStatuses(calls', tasks[t].call, tasks[t].user) = {"JOINED"}]_vars

\* C12 witness: after initiateCall and a completed acceptCall by b (which
\* recorded b's socket), a second acceptCall by b has found the call ONGOING
\* and updated b's row.
C12_SecondAccept ==
  \E t \in DOMAIN tasks :
     /\ At(t, "accept", "acc_part_done")
     /\ tasks[t].user = "b"
     /\ tasks[t].snap.status = "ONGOING"
     /\ Recorded(tasks[t].call, "b") # NoSocket
     /\ quota = MaxOps - 3

\* C13: when rejectCall returns success, the call is MISSED and the row of
\* the rejecting user is MISSED, whatever the call status and the other
\* participant's status were.
C13_RejectLeavesMissed ==
  [][\A t \in DOMAIN tasks :
        (At(t, "reject", "rej_status_done") /\ tasks'[t].op = None) =>
          /\ returned' = Resp(tasks[t].sock, "reject", TRUE, "Call rejected")
          /\ calls'[tasks[t].call].status = "MISSED"
          /\ RowStatuses(calls', tasks[t].call, tasks[t].user) = {"MISSED"}]_vars

\* C13 witness: the initiator's rejectCall has returned on a call the callee
\* had joined: the call is MISSED, the callee's row is still JOINED.
C13_RejectAfterAccept ==
  /\ returned.op = "reject" /\ returned.ok
  /\ \E c \in DOMAIN calls :
        /\ calls[c].status = "MISSED"
        /\ RowStatuses(calls, c, calls[c].initiatorId) = {"MISSED"}
        /\ RowStatuses(calls, c, "b") = {"JOINED"}

Quiet(c) ==
  /\ cb[c] = "idle"
  /\ \A t \in DOMAIN tasks : tasks[t].op = None \/ tasks[t].call # c

\* C15: whenever a call is ENDED or MISSED and nothing is in progress on it,
\* the socket map has no entry for it.
C15_NoEntryForTerminatedCall ==
  \A c \in DOMAIN calls :
     (calls[c].status \in Terminal /\ Quiet(c)) => c \notin DOMAIN callSocketMap

(* ---------------- direct calls to the presence registry --------------- *)
RegistryOnly ==
  UNCHANGED << sockets, calls, callSocketMap, ringTimeouts, armed, cb, tasks,
               emitted, returned, quota >>

\* subscribeClient(userId, client) on any pair, registered or not
callSubscribe(u, s) ==
  /\ BagCardinality(ledger.count) < MaxSubs
  /\ clients' = subscribeClient(clients, u, s)
  /\ ledger' = [count |-> ledger.count (+) SetToBag({<< u, s >>}),
                last  |-> ledger.last \cup {<< u, s >>}]
  /\ RegistryOnly

\* unsubscribeClient(userId, client) on any pair, registered or not
callUnsubscribe(u, s) ==
  /\ clients' = unsubscribeClient(clients, u, s)
  /\ ledger' = [count |-> ledger.count (-) SetToBag({<< u, s >>}),
                last  |-> ledger.last \ {<< u, s >>}]
  /\ RegistryOnly

NextRegistry ==
  \/ \E u \in Users, s \in SocketIds : callSubscribe(u, s)
  \/ \E u \in Users, s \in SocketIds : callUnsubscribe(u, s)

\* any sequence of subscribe and unsubscribe calls on the registry of a new
\* gateway
SpecRegistry == Init /\ [][NextRegistry]_vars

\* C16: a user is online exactly when the multiset of the user's subscribes
\* minus unsubscribes is not empty.
C16_OnlineIffMultisetNonEmpty ==
  \A u \in Users :
     isOnline(u) <=> \E s \in SocketIds : CopiesIn(<< u, s >>, ledger.count) > 0

\* C16, amended: a user is online exactly when some connection's latest call
\* for the user was a subscribe, and the registry holds exactly those
\* connections for the user.
C16_OnlineIffLastSubscribed ==
  \A u \in Users :
     /\ isOnline(u) <=> \E s \in SocketIds : << u, s >> \in ledger.last
     /\ Registered(u) = { s \in SocketIds : << u, s >> \in ledger.last }

\* C16 witness: a pair was subscribed twice and unsubscribed once.
C16_DuplicateLeft ==
  \E u \in Users, s \in SocketIds :
     /\ CopiesIn(<< u, s >>, ledger.count) = 1
     /\ << u, s >> \notin ledger.last

\* C17: on every registry, subscribing a pair twice gives the registry that
\* subscribing it once gives, unsubscribing a pair twice the registry that
\* unsubscribing it once gives, and unsubscribing a pair that is not
\* registered gives the registry itself.
C17_RegistryIdempotent ==
  \A u \in Users, s \in SocketIds :
     LET sub   == subscribeClient(clients, u, s)
         unsub == unsubscribeClient(clients, u, s)
     IN  /\ subscribeClient(sub, u, s) = sub
         /\ unsubscribeClient(unsub, u, s) = unsub
         /\ s \notin Registered(u) => unsub = clients

\* C17 witness: a registered pair has been subscribed a second time, next to
\* another connection of the same user.
C17_SubscribedTwice ==
  \E u \in Users, s \in SocketIds :
     /\ CopiesIn(<< u, s >>, ledger.count) = 2
     /\ s \in Registered(u)
     /\ Len(clients[u]) = 2

\* initiateCall has just returned success for call c, the latest call
JustInitiated(c) ==
  /\ returned.op = "initiate" /\ returned.ok
  /\ c \in DOMAIN calls
  /\ \A d \in DOMAIN calls : d <= c

\* the callee of call c: the user of the second row create inserted
CalleeOf(c) == calls[c].participants[2].userId

\* initiateCall has just returned for call c and the callee is not registered
InitiatedOffline(c) == JustInitiated(c) /\ ~isOnline(CalleeOf(c))

MissedAndDropped(c) ==
  c \in DOMAIN calls /\ calls[c].status = "MISSED" /\ c \notin DOMAIN callSocketMap

C19_AcceptInTime ==
  [][\A t \in DOMAIN tasks :
        LET c == tasks[t].call
            b == tasks[t].user
        IN  ( /\ tasks[t].op = "accept" /\ tasks'[t].op = None
              /\ returned'.ok
              /\ c \in DOMAIN calls
              /\ tasks[t].snap.status = "INITIATED"
              /\ b = CalleeOf(c)
              /\ c \in armed /\ cb[c] = "idle"
              /\ \A o \in DOMAIN tasks \ {t} : tasks[o].call # c
              /\ isOnline(calls[c].initiatorId) ) =>
               /\ c \notin armed'
               /\ c \notin ringTimeouts'
               /\ calls'[c].status = "ONGOING"
               /\ \E i \in 1..Len(emitted') :
                     /\ emitted'[i].ev = "call.accepted"
                     /\ emitted'[i].call = c
                     /\ emitted'[i].from = b
                     /\ emitted'[i].to \in Range(clients[calls[c].initiatorId])]_vars

\* C19 witness: after initiateCall and acceptCall alone, the acceptance has
\* returned, the call is ONGOING with no timer and call.accepted was emitted.
C19_AcceptedWhileRinging ==
  /\ returned.op = "accept" /\ returned.ok
  /\ quota = MaxOps - 2
  /\ \E c \in DOMAIN calls :
        /\ calls[c].status = "ONGOING"
        /\ c \notin armed /\ cb[c] = "idle"
        /\ RowStatuses(calls, c, CalleeOf(c)) = {"JOINED"}
        /\ \E i \in 1..Len(emitted) :
              emitted[i].ev = "call.accepted" /\ emitted[i].from = CalleeOf(c)

\* C20: when an offer is forwarded with a hint that names no registered
\* connection of the recipient, and the recipient has two registered
\* connections of which one is its recorded socket for the call, exactly one
\* event is emitted, rtc.offer to the recorded socket.
C20_RecordedRoutePreferred ==
  [][\A t \in DOMAIN tasks, to \in SocketIds \cup {NoSocket} :
        LET c   == tasks[t].call
            u   == tasks[t].snap.userIds[OtherIdx(t)]
            rec == Recorded(c, u)
        IN  ( /\ At(t, "forward", "fwd_found")
              /\ forwardDone(t, "offer", to)
              /\ to \notin Registered(u) \ {tasks[t].sock}
              /\ Cardinality(Registered(u)) = 2
              /\ \A s \in Registered(u) : sockets[s].st = "open"
              /\ rec \in Registered(u) \ {tasks[t].sock} ) =>
               emitted' = << Ev(rec, RelayEvent("offer"), c, tasks[t].user, None) >>]_vars

\* C20 witness: an offer of a went to the recorded socket of b, which is not
\* the first of b's two registered connections.
C20_OfferToRecordedSecond ==
  /\ returned.op = "offer" /\ returned.ok
  /\ Len(emitted) = 1
  /\ emitted[1].ev = RelayEvent("offer") /\ emitted[1].from = "a"
  /\ Cardinality(Registered("b")) = 2
  /\ emitted[1].to = Recorded(emitted[1].call, "b")
  /\ emitted[1].to \in Registered("b")
  /\ emitted[1].to # clients["b"][1]

\* the relay handler t read a call record in which no participant is a user
\* other than the sender
NoOtherParticipant(t) ==
  /\ At(t, "forward", "fwd_found")
  /\ tasks[t].snap # NoSnap
  /\ \A i \in 1..Len(tasks[t].snap.userIds) :
        tasks[t].snap.userIds[i] = tasks[t].user

\* C21: a relay on an existing call with no participant other than the
\* sender ends with a single "Recipient not found" error event to the
\* sender's connection, returns that failure and leaves the socket map as
\* it was.
C21_RecipientNotFound ==
  [][\A t \in DOMAIN tasks :
        (NoOtherParticipant(t) /\ tasks'[t] # tasks[t]) =>
           /\ tasks'[t].op = None
           /\ emitted' = << emitError(tasks[t].sock, "Recipient not found") >>
           /\ ~returned'.ok /\ returned'.msg = "Recipient not found"
           /\ callSocketMap' = callSocketMap]_vars

\* C21 witness: the lone participant of a call sent a relay and was answered
\* "Recipient not found".
C21_LoneSenderRefused ==
  /\ returned.msg = "Recipient not found"
  /\ \E c \in DOMAIN calls :
        /\ Len(calls[c].participants) = 1
        /\ calls[c].participants[1].userId = UserIdOf(returned.sock)
  /\ emitted = << emitError(returned.sock, "Recipient not found") >>

\* the relay handler t read a call with another participant for whom the
\* router finds no socket, whatever the hint
RouterFindsNone(t) ==
  /\ At(t, "forward", "fwd_found")
  /\ tasks[t].snap # NoSnap
  /\ OtherIdx(t) # 0
  /\ \A to \in SocketIds \cup {NoSocket} : RelayTarget(t, to) = NoSocket

\* C22: when the router finds no socket for the recipient of a relay, the
\* handler ends with a single "Recipient not available" error event to the
\* sender's connection and returns that failure; the socket map, the ring
\* timers, the call records and the registry are unchanged.
C22_RecipientNotAvailable ==
  [][\A t \in DOMAIN tasks :
        (RouterFindsNone(t) /\ tasks'[t] # tasks[t]) =>
           /\ tasks'[t].op = None
           /\ emitted' = << emitError(tasks[t].sock, "Recipient not available") >>
           /\ ~returned'.ok /\ returned'.msg = "Recipient not available"
           /\ UNCHANGED << callSocketMap, ringTimeouts, armed, cb, calls,
                           clients >>]_vars

\* C22 witness: a relay was answered "Recipient not available" while the
\* call was ringing, its timer armed and its socket map entry in place.
C22_RefusedWhileRinging ==
  /\ returned.msg = "Recipient not available"
  /\ emitted = << emitError(returned.sock, "Recipient not available") >>
  /\ \E c \in DOMAIN calls :
        /\ calls[c].status = "INITIATED"
        /\ c \in armed
        /\ c \in DOMAIN callSocketMap

RecordedIn(m, c, u) ==
  IF c \in DOMAIN m /\ u \in DOMAIN m[c] THEN m[c][u] ELSE NoSocket

\* the step is one of relay handler t, or the refusal of a relay sent
\* without an identity
RelayStep(t) ==
  \/ /\ tasks'[t] # tasks[t]
     /\ tasks[t].op = "forward" \/ tasks'[t].op = "forward"
  \/ /\ returned'.op \in RelayOps
     /\ returned'.msg = "Unauthorized"
     /\ tasks' = tasks

\* C23: no step of a relay handler changes a call record (status or
\* participant rows), a ring timer or its callback; in the socket map it
\* changes at most the socket recorded for the sender under the call.
C23_RelayFrame ==
  [][\A t \in DOMAIN tasks :
        RelayStep(t) =>
           /\ UNCHANGED << calls, ringTimeouts, armed, cb >>
           /\ \A c \in CallIds \cup {GhostCall}, u \in Users :
                 RecordedIn(callSocketMap', c, u) # RecordedIn(callSocketMap, c, u)
                   => /\ c = tasks[t].call /\ u = tasks[t].user
                      /\ RecordedIn(callSocketMap', c, u) = tasks[t].sock]_vars

\* C23 witness: a relay went through and recorded its sender's socket while
\* the call was ringing with its timer armed.
C23_RelayedWhileRinging ==
  /\ returned.op \in RelayOps /\ returned.ok
  /\ Len(emitted) = 1 /\ emitted[1].ev \in RelayEvents
  /\ \E c \in DOMAIN calls :
        /\ calls[c].status = "INITIATED"
        /\ c \in armed /\ cb[c] = "idle"
        /\ emitted[1].call = c
        /\ RecordedIn(callSocketMap, c, emitted[1].from) = returned.sock
        /\ emitted[1].from # calls[c].initiatorId

\* handler t is an acceptCall, a rejectCall or a relay for a call id that
\* has no record
OnUnknownCall(t) ==
  /\ tasks[t].op \in {"accept", "reject", "forward"}
  /\ tasks[t].call \notin DOMAIN calls

\* C24: no step of an acceptCall, a rejectCall or a relay sent with a call id
\* that has no record changes a call record, the socket map, a ring timer or
\* the registry, and the handler ends with a single "Call not found" error
\* event to the sender's connection.
C24_CallNotFound ==
  [][\A t \in DOMAIN tasks :
        (OnUnknownCall(t) /\ tasks'[t] # tasks[t]) =>
           /\ UNCHANGED << calls, callSocketMap, ringTimeouts, armed, cb, clients >>
           /\ tasks'[t].op = None =>
                 /\ emitted' = << emitError(tasks[t].sock, "Call not found") >>
                 /\ ~returned'.ok /\ returned'.msg = "Call not found"]_vars

\* C24 witness: an acceptCall with an unknown call id was refused while a
\* call was ringing, its timer armed and its socket map entry in place.
C24_AcceptUnknownRefused ==
  /\ returned.op = "accept" /\ returned.msg = "Call not found"
  /\ emitted = << emitError(returned.sock, "Call not found") >>
  /\ \E c \in DOMAIN calls : c \in armed /\ c \in DOMAIN callSocketMap

\* the router has nothing for user p under call c: no registered connection
\* and, where the handler resolves with the map entry still in place, no
\* recorded socket
Unresolvable(op, c, p) ==
  /\ Registered(p) = {}
  /\ op = "reject" \/ RecordedIn(callSocketMap, c, p) = NoSocket

\* handler t is a valid initiateCall, acceptCall, rejectCall or endCall whose
\* other participants are all unresolvable
PeerUnreachable(t) ==
  LET op == tasks[t].op
      c  == tasks[t].call
      u  == tasks[t].user
  IN  \/ /\ op = "initiate"
         /\ InitiateError(tasks[t].arg, u) = None
         /\ Callee(tasks[t].arg) # u
         /\ Registered(Callee(tasks[t].arg)) = {}
      \/ /\ op \in {"accept", "reject", "end"}
         /\ c \in DOMAIN calls
         /\ ParticipantsOf(c) \ {u} # {}
         /\ \A p \in ParticipantsOf(c) \ {u} : Unresolvable(op, c, p)

\* what the steps of such a handler do besides emitting: the writes to the
\* call record, success returned, the timer and the socket map
UnreachableCommits(t) ==
  LET c == tasks[t].call
      u == tasks[t].user
  IN  /\ tasks[t].pc = "init_found" =>
            /\ tasks'[t].call \notin DOMAIN calls
            /\ calls'[tasks'[t].call].status = "INITIATED"
      /\ tasks[t].pc = "acc_found" => RowStatuses(calls', c, u) = {"JOINED"}
      /\ (tasks[t].pc = "acc_part_done" /\ tasks[t].snap.status = "INITIATED")
            => calls'[c].status = "ONGOING"
      /\ tasks[t].pc = "rej_part_done" => calls'[c].status = "MISSED"
      /\ tasks[t].pc = "end_update" => calls'[c].status = "ENDED"
      /\ tasks'[t].op = None =>
            /\ returned'.ok
            /\ tasks[t].op = "initiate" =>
                  /\ c \in armed' /\ c \in ringTimeouts'
                  /\ RecordedIn(callSocketMap', c, u) = tasks[t].sock
            /\ tasks[t].op = "accept" =>
                  /\ c \notin armed' /\ c \notin ringTimeouts'
                  /\ RecordedIn(callSocketMap', c, u) = tasks[t].sock
            /\ tasks[t].op \in {"reject", "end"} =>
                  /\ c \notin armed' /\ c \notin ringTimeouts'
                  /\ c \notin DOMAIN callSocketMap'

\* C25: initiateCall, acceptCall, rejectCall and endCall with every other
\* participant unresolvable write the call record, return success and
\* update the timer and the socket map as otherwise, and emit nothing.
C25_UnreachableEmitsNothing ==
  [][\A t \in DOMAIN tasks :
        (PeerUnreachable(t) /\ tasks'[t] # tasks[t]) =>
           /\ UnreachableCommits(t)
           /\ tasks'[t].op = None => emitted' = << >>]_vars

\* C25, amended: the same, but endCall still emits call.ended to the socket
\* resolved for the acting user when that user is a participant.
C25_UnreachableSkipsPeerOnly ==
  [][\A t \in DOMAIN tasks :
        (PeerUnreachable(t) /\ tasks'[t] # tasks[t]) =>
           /\ UnreachableCommits(t)
           /\ tasks'[t].op = None =>
                 IF tasks[t].op = "end"
                 THEN emitted' =
                        IF tasks[t].user \in ParticipantsOf(tasks[t].call)
                        THEN EmitTo(findTargetIn(callSocketMap, tasks[t].call,
                                                 tasks[t].user, NoSocket, NoSocket),
                                    "call.ended", tasks[t].call, None)
                        ELSE << >>
                 ELSE emitted' = << >>]_vars

\* C25 witness: initiateCall returned success for a callee without a
\* registered connection, with the timer armed, the caller's socket
\* recorded and nothing emitted.
C25_InitiatedUnreachable ==
  /\ returned.op = "initiate" /\ returned.ok
  /\ emitted = << >>
  /\ \E c \in DOMAIN calls :
        /\ calls[c].status = "INITIATED"
        /\ Registered(CalleeOf(c)) = {}
        /\ c \in armed
        /\ RecordedIn(callSocketMap, c, calls[c].initiatorId) = returned.sock

\* the socket the router gives for participant p of call c when no hint and
\* no exclusion apply, resolved against the socket map as it stands
ResolvedFor(c, p) ==
  IF RecordedIn(callSocketMap, c, p) # NoSocket
  THEN RecordedIn(callSocketMap, c, p)
  ELSE FirstActive(p, NoSocket)

\* C26: the update of endCall on an existing call that is INITIATED or
\* ONGOING writes ENDED; when endCall returns, the call has no ring timer and
\* no socket map entry, it is ENDED if its timer was still armed and no
\* other handler is at work on it, and the
\* events emitted are call.ended, one for each participant row whose user has
\* a socket resolved against the map as it stood before the entry was dropped.
C26_EndContract ==
  [][\A t \in DOMAIN tasks :
        LET c == tasks[t].call
        IN  (tasks[t].op = "end" /\ c \in DOMAIN calls /\ tasks'[t] # tasks[t]) =>
              /\ (tasks[t].pc = "end_update"
                    /\ calls[c].status \in {"INITIATED", "ONGOING"})
                   => calls'[c].status = "ENDED"
              /\ tasks'[t].op = None =>
                   /\ returned'.ok
                   /\ c \notin armed' /\ c \notin ringTimeouts'
                   /\ c \notin DOMAIN callSocketMap'
                   /\ (c \in armed /\ \A o \in DOMAIN tasks \ {t} : tasks[o].call # c)
                        => calls'[c].status = "ENDED"
                   /\ \A i \in 1..Len(emitted') :
                         /\ emitted'[i].ev = "call.ended" /\ emitted'[i].call = c
                         /\ \E p \in ParticipantsOf(c) : emitted'[i].to = ResolvedFor(c, p)
                   /\ \A p \in ParticipantsOf(c) :
                         ResolvedFor(c, p) # NoSocket =>
                           \E i \in 1..Len(emitted') : emitted'[i].to = ResolvedFor(c, p)
                   /\ Len(emitted') =
                         Cardinality({ i \in 1..Len(calls[c].participants) :
                            ResolvedFor(c, calls[c].participants[i].userId) # NoSocket })]_vars

\* C26 witness: endCall returned on an ENDED call after emitting call.ended to
\* the initiator's socket and to the recorded socket of the callee, which is
\* not the callee's first registered connection.
C26_EndedBothNotified ==
  /\ returned.op = "end" /\ returned.ok
  /\ Len(emitted) = 2
  /\ \E c \in DOMAIN calls :
        /\ calls[c].status = "ENDED"
        /\ c \notin DOMAIN callSocketMap /\ c \notin armed
        /\ \E i, j \in 1..2 :
              /\ emitted[i].to \in Registered(calls[c].initiatorId)
              /\ emitted[j].to \in Registered(CalleeOf(c))
              /\ emitted[j].to # clients[CalleeOf(c)][1]
              /\ emitted[i].ev = "call.ended" /\ emitted[j].ev = "call.ended"

\* the step closes connection s
Disconnects(s) ==
  /\ sockets[s].st \notin {"idle", "gone", "pendingGone"}
  /\ sockets'[s].st \in {"gone", "pendingGone"}

\* C27: a step that closes a connection leaves the call records, the socket
\* map, the ring timers and their callbacks as they were; and a call becomes
\* ENDED or MISSED only in a step of rejectCall, of endCall or of the
\* ring-timeout callback.
C27_DisconnectFrame ==
  [][/\ \A s \in SocketIds :
          Disconnects(s) =>
            UNCHANGED << calls, callSocketMap, ringTimeouts, armed, cb >>
     /\ \A c \in DOMAIN calls :
          (calls[c].status \notin Terminal /\ calls'[c].status \in Terminal) =>
             \/ cb[c] = "update" /\ cb'[c] = "updated"
             \/ \E t \in DOMAIN tasks :
                   /\ tasks[t].op \in {"reject", "end"}
                   /\ tasks[t].call = c
                   /\ tasks'[t] # tasks[t]]_vars

\* C27 witness: the socket recorded for a participant of a call in progress
\* is closed and no longer registered; the call, its socket map entry and
\* its ring timer are as they were.
C27_RecordedSocketGone ==
  \E c \in DOMAIN calls, u \in Users :
     /\ calls[c].status = "INITIATED"
     /\ c \in armed /\ cb[c] = "idle"
     /\ RecordedIn(callSocketMap, c, u) # NoSocket
     /\ sockets[RecordedIn(callSocketMap, c, u)].st = "gone"
     /\ RecordedIn(callSocketMap, c, u) \notin Registered(u)

\* C28: when the ring-timeout callback of a call finishes, after its update
\* took effect or failed, the call has no timer entry; the failing update
\* and the steps of the callback after it change neither the call records
\* nor the socket map.
C28_TimerClearedOnFailure ==
  [][\A c \in CallIds :
        /\ (cb[c] \in {"updated", "failed"} /\ cb'[c] = "idle") =>
               c \notin ringTimeouts' /\ c \notin armed'
        /\ (cb'[c] = "failed" /\ cb[c] # "failed") =>
               UNCHANGED << calls, callSocketMap >>
        /\ (cb[c] = "failed" /\ cb'[c] # "failed") =>
               UNCHANGED << calls, callSocketMap >>]_vars

\* C28 witness: only initiateCall was requested and the callback has run and
\* failed: the call is still INITIATED with its socket map entry and has no
\* timer entry.
C28_FailedCallbackCleared ==
  \E c \in DOMAIN calls :
     /\ calls[c].status = "INITIATED"
     /\ c \in DOMAIN callSocketMap
     /\ c \notin ringTimeouts /\ c \notin armed
     /\ cb[c] = "idle"
     /\ quota = MaxOps - 1
     /\ \A t \in DOMAIN tasks : tasks[t].op = None

\* handler t has made a write to the call record
Wrote(t) ==
  tasks[t].pc \in {"acc_part_done", "acc_status_done", "rej_part_done",
                   "rej_status_done", "end_updated"}

\* handlers t1 and t2 work on the same existing call for the same
\* connection, and t1's message was received first: after initiateCall only
\* two more requests were made, so the first took the lower slot
ReceivedBefore(t1, t2) ==
  /\ t1 < t2
  /\ quota = MaxOps - 3
  /\ tasks[t1].op \in {"accept", "reject", "end"}
  /\ tasks[t2].op \in {"accept", "reject", "end"}
  /\ tasks[t1].sock = tasks[t2].sock
  /\ tasks[t1].call = tasks[t2].call
  /\ tasks[t1].call \in DOMAIN calls

\* C29: of two handlers at work on the same call for the same connection,
\* the one received first makes no write to the call record after the one
\* received second has written.
C29_SameConnectionOrder ==
  [][\A t1, t2 \in DOMAIN tasks :
        (ReceivedBefore(t1, t2) /\ Wrote(t2)) =>
           ~(tasks'[t1] # tasks[t1] /\ calls' # calls)]_vars

C31_RelaySuccess ==
  [][\A t \in DOMAIN tasks :
        LET c == tasks[t].call
            u == tasks[t].user
        IN  (tasks[t].op = "forward" /\ tasks'[t].op = None /\ returned'.ok) =>
              /\ returned'.op \in RelayOps
              /\ Len(emitted') = 1
              /\ emitted'[1].ev = RelayEvent(returned'.op)
              /\ emitted'[1].call = c /\ emitted'[1].from = u
              /\ emitted'[1].to # NoSocket
              /\ \E to \in SocketIds \cup {NoSocket} :
                    emitted'[1].to = RelayTarget(t, to)
              /\ c \in DOMAIN callSocketMap'
              /\ RecordedIn(callSocketMap', c, u) = tasks[t].sock
              /\ \A d \in CallIds \cup {GhostCall}, v \in Users :
                    (d # c \/ v # u) =>
                       RecordedIn(callSocketMap', d, v) = RecordedIn(callSocketMap, d, v)
              /\ DOMAIN callSocketMap' = DOMAIN callSocketMap \cup {c}]_vars

\* C31 witness: an answer was relayed for a call whose socket map entry had
\* been dropped; the entry exists again and holds the sender's socket alone.
C31_AnswerRecreatesEntry ==
  /\ returned.op = "answer" /\ returned.ok
  /\ Len(emitted) = 1 /\ emitted[1].ev = "rtc.answer"
  /\ \E c \in DOMAIN calls :
        /\ calls[c].status = "ENDED"
        /\ emitted[1].call = c
        /\ c \in DOMAIN callSocketMap
        /\ DOMAIN callSocketMap[c] = {emitted[1].from}
        /\ callSocketMap[c][emitted[1].from] = returned.sock

\* C32: when initiateCall returns success for its new call, the socket map
\* entry of the call holds the caller's connection under the caller's id and
\* nothing else, and the ring timer of the call is armed.
C32_InitiateRecordsCallerOnly ==
  [][\A t \in DOMAIN tasks :
        LET c == tasks[t].call
        IN  (tasks[t].op = "initiate" /\ tasks'[t].op = None /\ returned'.ok) =>
              /\ c \in DOMAIN callSocketMap'
              /\ DOMAIN callSocketMap'[c] = {tasks[t].user}
              /\ callSocketMap'[c][tasks[t].user] = tasks[t].sock
              /\ c \in ringTimeouts' /\ c \in armed'
              /\ cb'[c] = "idle"]_vars

\* C32 witness: initiateCall returned after call.incoming went to a
\* connection of the callee, and the entry of the call records the caller
\* alone.
C32_CalleeNotifiedNotRecorded ==
  /\ returned.op = "initiate" /\ returned.ok
  /\ Len(emitted) = 1 /\ emitted[1].ev = "call.incoming"
  /\ \E c \in DOMAIN calls :
        /\ emitted[1].call = c
        /\ emitted[1].to \in Registered(CalleeOf(c))
        /\ DOMAIN callSocketMap[c] = {calls[c].initiatorId}
        /\ c \in armed

\* C33: getActiveSocketIdsForUser(u, x) lists the connections registered for
\* u other than x, each once and in the order of the registry; all of them
\* when x is no connection, none when u has no entry.
C33_ActiveSocketIds ==
  \A u \in Users, x \in SocketIds \cup {NoSocket} :
     LET ids == getActiveSocketIdsForUser(u, x)
     IN  /\ Range(ids) = Registered(u) \ {x}
         /\ Len(ids) = Cardinality(Registered(u) \ {x})
         /\ u \notin DOMAIN clients => ids = << >>
         /\ (u \in DOMAIN clients /\ x = NoSocket) => ids = clients[u]
         /\ \A i, j \in 1..Len(ids) :
               i < j => \E k, l \in 1..Len(clients[u]) :
                          k < l /\ clients[u][k] = ids[i] /\ clients[u][l] = ids[j]

\* C33 witness: a user has two registered connections and the listing that
\* excludes the first is the second alone.
C33_ExcludesOneOfTwo ==
  \E u \in DOMAIN clients :
     /\ Len(clients[u]) = 2
     /\ getActiveSocketIdsForUser(u, clients[u][1]) = << clients[u][2] >>

\* C34: whatever the call, the recipient, the hint and the excluded
\* connection, the router never returns the excluded connection; and no
\* event of a relay that went through was sent to the connection the relay
\* came from.
C34_NeverToSender ==
  /\ \A c \in CallIds \cup {GhostCall}, u \in Users,
        to \in SocketIds \cup {NoSocket}, ex \in SocketIds :
        findTargetSocketForRecipient(c, u, to, ex) # ex
  /\ (returned.op \in RelayOps /\ returned.ok) =>
        \A i \in 1..Len(emitted) : emitted[i].to # returned.sock

\* C34 witness: a user's recorded socket for a call is excluded and also
\* given as the hint, and the router returns another connection of the user.
C34_RecordedAndHintExcluded ==
  \E c \in DOMAIN callSocketMap, u \in Users :
     /\ Recorded(c, u) # NoSocket
     /\ Recorded(c, u) \in Registered(u)
     /\ findTargetSocketForRecipient(c, u, Recorded(c, u), Recorded(c, u))
           \in Registered(u) \ {Recorded(c, u)}

\* C35: in every state where no handler and no timeout callback is at work
\* on a call and the call is not INITIATED, the call has no ring timer.
C35_NoTimerOnceDecided ==
  \A c \in DOMAIN calls :
     (Quiet(c) /\ calls[c].status # "INITIATED") =>
        c \notin armed /\ c \notin ringTimeouts

\* C35 witness: a Reject has just returned on a call that an Accept, which
\* read the call before the Reject wrote, moved to ONGOING afterwards; both
\* have completed and the call has no ring timer.
C35_AcceptAndRejectCompleted ==
  \E c \in DOMAIN calls :
     /\ Quiet(c)
     /\ calls[c].status = "ONGOING"
     /\ returned.op = "reject" /\ returned.ok
     /\ c \notin armed /\ c \notin ringTimeouts

\* C36: whenever the stored status of a call is ONGOING, the participant
\* row of the callee (the non-initiator) has status JOINED.
C36_OngoingMeansCalleeJoined ==
  \A c \in DOMAIN calls :
     calls[c].status = "ONGOING" =>
        RowStatuses(calls, c, CalleeOf(c)) = {"JOINED"}

\* C37: no step of an Accept that found its call ENDED or MISSED changes the
\* status of the call or reaches the status update; when it returns, with no
\* other handler at work, it has succeeded, the acceptor's row is JOINED and
\* the socket map of the call holds the acceptor's connection.
C37_AcceptOnTerminatedCall ==
  [][\A t \in DOMAIN tasks :
        (tasks[t].op = "accept" /\ tasks[t].snap.status \in Terminal
           /\ tasks'[t] # tasks[t]) =>
          /\ tasks'[t].pc # "acc_status_done"
          /\ calls'[tasks[t].call].status = calls[tasks[t].call].status
          /\ tasks'[t].op = None =>
                /\ returned'.ok
                /\ RowStatuses(calls', tasks[t].call, tasks[t].user) = {"JOINED"}
                /\ RecordedIn(callSocketMap', tasks[t].call, tasks[t].user)
                      = tasks[t].sock]_vars

\* C37 witness: an Accept by the callee, who had not joined before, has
\* written its row on a call it found ENDED or MISSED, with the timeout
\* callback idle and the socket map entry of the call gone.
C37_LateAccept ==
  \E t \in DOMAIN tasks :
     /\ At(t, "accept", "acc_part_done")
     /\ tasks[t].snap.status \in Terminal
     /\ calls[tasks[t].call].status \in Terminal
     /\ tasks[t].user = CalleeOf(tasks[t].call)
     /\ cb[tasks[t].call] = "idle"
     /\ tasks[t].call \notin DOMAIN callSocketMap

\* C38: the step that completes a Reject emits exactly one call.missed, to
\* the first active connection of the other participant, if that participant
\* has an active connection, and emits nothing otherwise; what the socket
\* map of the call recorded for that participant plays no part.
C38_RejectNotifiesLiveConnection ==
  [][\A t \in DOMAIN tasks :
        (At(t, "reject", "rej_status_done") /\ tasks'[t].op = None) =>
          LET other == { u \in Range(tasks[t].snap.userIds) : u # tasks[t].user }
          IN  \A u \in other :
                 (\A v \in other : v = u \/ u = tasks[t].snap.userIds[1]) =>
                    /\ tasks[t].call \notin DOMAIN callSocketMap'
                    /\ emitted' = EmitTo(FirstActive(u, NoSocket), "call.missed",
                                         tasks[t].call, tasks[t].user)
                    /\ (emitted' # << >>) <=> (Registered(u) # {})]_vars

\* C38 witness: a Reject is about to complete while the socket map of the
\* call records, for the other participant, a live connection that is not
\* that participant's first active one.
C38_RecordedNotFirstActive ==
  \E t \in DOMAIN tasks, u \in Users :
     /\ At(t, "reject", "rej_status_done")
     /\ u # tasks[t].user
     /\ u \in Range(tasks[t].snap.userIds)
     /\ Recorded(tasks[t].call, u) \in Registered(u)
     /\ Recorded(tasks[t].call, u) # FirstActive(u, NoSocket)

\* C39: what a relay does when it completes is decided by the participants
\* it read, the socket map, the registry, the sender and the hint alone, and
\* not by the status of the call: it goes through exactly if the call exists,
\* has another participant and the router finds a target for some hint; it
\* then emits to that target and records the sender, and otherwise refuses
\* and leaves the socket map alone.
C39_RelayIgnoresStatus ==
  [][\A t \in DOMAIN tasks :
        (At(t, "forward", "fwd_found") /\ tasks'[t].op = None) =>
          \E to \in SocketIds \cup {NoSocket} :
             LET goes == /\ tasks[t].snap # NoSnap
                         /\ OtherIdx(t) # 0
                         /\ RelayTarget(t, to) # NoSocket
             IN  /\ returned'.ok <=> goes
                 /\ goes =>
                       /\ emitted' = EmitTo(RelayTarget(t, to),
                                            RelayEvent(returned'.op),
                                            tasks[t].call, tasks[t].user)
                       /\ callSocketMap' = recordRoute(callSocketMap, tasks[t].call,
                                                       tasks[t].user, tasks[t].sock)
                 /\ ~goes =>
                       /\ callSocketMap' = callSocketMap
                       /\ \A i \in 1..Len(emitted') :
                             emitted'[i].to = tasks[t].sock]_vars

\* C39 witness: an offer has gone through on a call whose status is MISSED.
C39_OfferOnMissedCall ==
  /\ returned.op = "offer" /\ returned.ok
  /\ Len(emitted) = 1 /\ emitted[1].ev = "rtc.offer"
  /\ emitted[1].call \in DOMAIN calls
  /\ calls[emitted[1].call].status = "MISSED"

\* C40: every socket map entry (c, u) -> s that a step writes is written by
\* an Initiate, an Accept or a relay on call c that user u sent on connection
\* s; every entry holds a connection that was authenticated as its user; and
\* a connection is registered under one user at most, the one it was
\* authenticated as.
C40_EntriesComeFromTheirOwner ==
  [][/\ \A c \in CallIds \cup {GhostCall}, u \in Users :
          LET s == RecordedIn(callSocketMap', c, u)
          IN  (s # NoSocket /\ s # RecordedIn(callSocketMap, c, u)) =>
                 \E t \in DOMAIN tasks :
                    /\ tasks[t].op \in {"initiate", "accept", "forward"}
                    /\ tasks'[t].op = None
                    /\ tasks[t].call = c
                    /\ tasks[t].user = u
                    /\ tasks[t].sock = s
     /\ \A c \in DOMAIN callSocketMap' : \A u \in DOMAIN callSocketMap'[c] :
          /\ callSocketMap'[c][u] \in SocketIds
          /\ sockets'[callSocketMap'[c][u]].st \in {"open", "gone"}
          /\ sockets'[callSocketMap'[c][u]].tok = u
     /\ \A s \in SocketIds : \A u \in DOMAIN clients' :
          s \in Range(clients'[u]) => sockets'[s].tok = u]_vars

\* C40 witness: the socket map of a call holds an entry for each of two
\* users, each on a connection of its own.
C40_TwoOwnersRecorded ==
  \E c \in DOMAIN callSocketMap :
     \E u, v \in DOMAIN callSocketMap[c] :
        /\ u # v
        /\ callSocketMap[c][u] # callSocketMap[c][v]
        /\ callSocketMap[c][u] \in Registered(u)
        /\ callSocketMap[c][v] \in Registered(v)

====
